---- MODULE Spec2Model ----
(***************************************************************************)
(* Model of blaze/sparksql.py: the translation between datashape types and *)
(* SparkSQL schema types (ds_to_sparksql, sparksql_to_ds, deoption, the    *)
(* two scalar tables, and the into / discover entry points).               *)
(*                                                                         *)
(* Python values are tagged records.  A raised exception is the value      *)
(* Raise(e): it replaces the whole result of the call that raised it.      *)
(***************************************************************************)
EXTENDS Integers, Sequences, FiniteSets, TLC

VARIABLES call, arg, ret, stack

vars == <<call, arg, ret, stack>>

(***************************************************************************)
(* Bounds of the explored inputs.                                          *)
(***************************************************************************)
MaxLen == 1        \* fixed dimensions have length 0..MaxLen
MaxFields == 2     \* records and structs have 1..MaxFields fields
MaxArity == 2      \* anonymous tuples have 0..MaxArity components

(***************************************************************************)
(* Python objects.                                                         *)
(***************************************************************************)
None == [tag |-> "None"]
PyStr(s) == [tag |-> "str", s |-> s]
PyInt(i) == [tag |-> "int", int |-> i]
PyList(xs) == [tag |-> "list", items |-> xs]
Raise(e) == [tag |-> "raise", exc |-> e]
IsRaise(v) == v.tag = "raise"

\* str(x) for the objects used as column labels
pystr(x) == IF x.tag = "int" THEN ToString(x.int) ELSE x.s

\* a dict literal: a later duplicate key replaces an earlier one
Dict(pairs) ==
  LET keys == {pairs[i][1] : i \in DOMAIN pairs}
      last(k) == CHOOSE i \in DOMAIN pairs :
                   /\ pairs[i][1] = k
                   /\ \A j \in DOMAIN pairs : pairs[j][1] = k => j <= i
  IN [k \in keys |-> pairs[last(k)][2]]

(***************************************************************************)
(* datashape values.                                                       *)
(***************************************************************************)
CType(k) == [tag |-> "ctype", kind |-> k]
Option(t) == [tag |-> "option", ty |-> t]
Fixed(n) == [tag |-> "fixed", n |-> n]
var == [tag |-> "var"]
DataShape(ps) == [tag |-> "ds", params |-> ps]
Tuple(ds) == [tag |-> "tuple", dshapes |-> ds]
\* Record(list of [name, type]): the names are kept as strings
Record(fs) == [tag |-> "record",
               fields |-> [i \in DOMAIN fs |->
                             [name |-> pystr(fs[i][1]), type |-> fs[i][2]]]]

int16 == CType("int16")
int32 == CType("int32")
int64 == CType("int64")
float32 == CType("float32")
float64 == CType("float64")
real == float64
time_ == CType("time")
date_ == CType("date")
datetime_ == CType("datetime")
bool_ == CType("bool")
string == CType("string")
int128 == CType("int128")      \* a scalar that is in neither table

isdimension(x) == x.tag \in {"fixed", "var"}

\* a * b on datashape values: a DataShape on the right is extended
Mul(a, b) == IF b.tag = "ds" THEN DataShape(<<a>> \o b.params)
             ELSE DataShape(<<a, b>>)

\* ds.subshape[0]
subshape0(ds) == DataShape(Tail(ds.params))

(***************************************************************************)
(* pyspark.sql values.                                                     *)
(***************************************************************************)
Prim(n) == [tag |-> "prim", name |-> n]
ShortType == Prim("ShortType")
IntegerType == Prim("IntegerType")
LongType == Prim("LongType")
FloatType == Prim("FloatType")
DoubleType == Prim("DoubleType")
TimestampType == Prim("TimestampType")
BooleanType == Prim("BooleanType")
StringType == Prim("StringType")
ByteType == Prim("ByteType")   \* an engine scalar that is in neither table

ArrayType(e, c) == [tag |-> "array", elementType |-> e, containsNull |-> c]
StructField(n, d, nl) == [name |-> n, dataType |-> d, nullable |-> nl]
StructType(fs) == [tag |-> "struct", sfields |-> fs]

(***************************************************************************)
(* The scalar tables.                                                      *)
(***************************************************************************)
types == Dict(<< <<int16, ShortType>>,
                 <<int32, IntegerType>>,
                 <<int64, LongType>>,
                 <<float32, FloatType>>,
                 <<float64, DoubleType>>,
                 <<real, DoubleType>>,
                 <<time_, TimestampType>>,
                 <<date_, TimestampType>>,
                 <<datetime_, TimestampType>>,
                 <<bool_, BooleanType>>,
                 <<string, StringType>> >>)

\* rev_types with the timestamp entry pointing at date
rev_types_date == Dict(<< <<IntegerType, int32>>,
                          <<ShortType, int16>>,
                          <<LongType, int64>>,
                          <<FloatType, float32>>,
                          <<DoubleType, float64>>,
                          <<StringType, string>>,
                          <<TimestampType, date_>>,
                          <<BooleanType, bool_>> >>)

rev_types == Dict(<< <<IntegerType, int32>>,
                     <<ShortType, int16>>,
                     <<LongType, int64>>,
                     <<FloatType, float32>>,
                     <<DoubleType, float64>>,
                     <<StringType, string>>,
                     <<TimestampType, datetime_>>,
                     <<BooleanType, bool_>> >>)

(***************************************************************************)
(* dshape(x): a datashape value is wrapped in a DataShape unless it is     *)
(* one; a string is parsed.  The strings are those of the doctests.        *)
(***************************************************************************)
dshape(x) ==
  IF x.tag = "str" THEN
    CASE x.s = "int32" -> DataShape(<<int32>>)
      [] x.s = "?int32" -> DataShape(<<Option(int32)>>)
      [] x.s = "5 * int32" -> DataShape(<<Fixed(5), int32>>)
      [] x.s = "5 * ?int32" -> DataShape(<<Fixed(5), Option(int32)>>)
      [] x.s = "{name: string, amount: int32}" ->
           DataShape(<<Record(<< <<PyStr("name"), string>>,
                                 <<PyStr("amount"), int32>> >>)>>)
      [] x.s = "10 * {name: string, amount: ?int32}" ->
           DataShape(<<Fixed(10),
                       Record(<< <<PyStr("name"), string>>,
                                 <<PyStr("amount"), Option(int32)>> >>)>>)
  ELSE IF x.tag = "ds" THEN x
  ELSE DataShape(<<x>>)

(***************************************************************************)
(* deoption.  deoptionTrace also records which return statement was taken: *)
(* stripped is TRUE exactly when the Option branch returned ds.ty.         *)
(***************************************************************************)
\* deoption stripping every level of Option instead of one
RECURSIVE deoptionTrace_all(_)
deoptionTrace_all(ds0) ==
  LET ds == IF ds0.tag = "str" THEN dshape(ds0) ELSE ds0
  IN IF ds.tag = "ds" /\ ~isdimension(ds.params[1])
       THEN deoptionTrace_all(ds.params[1])
     ELSE IF ds.tag = "option"
       THEN [value |-> deoptionTrace_all(ds.ty).value, stripped |-> TRUE]
     ELSE [value |-> ds, stripped |-> FALSE]

RECURSIVE deoptionTrace(_)
deoptionTrace(ds0) ==
  LET ds == IF ds0.tag = "str" THEN dshape(ds0) ELSE ds0
  IN IF ds.tag = "ds" /\ ~isdimension(ds.params[1])
       THEN deoptionTrace(ds.params[1])
     ELSE IF ds.tag = "option"
       THEN [value |-> ds.ty, stripped |-> TRUE]
     ELSE [value |-> ds, stripped |-> FALSE]

deoption(ds) == deoptionTrace(ds).value

\* the result of a list comprehension whose items may raise: the first
\* exception raised, in order, replaces the list
FirstRaise(items) ==
  LET bad == {i \in DOMAIN items : IsRaise(items[i])}
  IN IF bad = {} THEN None
     ELSE items[CHOOSE i \in bad : \A j \in bad : i <= j]

(***************************************************************************)
(* ds_to_sparksql                                                          *)
(***************************************************************************)
\* the nullable flag of a struct field taken after deoption instead of
\* before it
fieldNullable_after(typ) == deoption(typ).tag = "option"

\* isinstance(typ, datashape.Option), the nullable flag of a struct field
fieldNullable(typ) == typ.tag = "option"

\* isinstance(elem, Option), the containsNull flag of an array
elemNullable(elem) == elem.tag = "option"

\* the element of a dimension: ds.subshape[0], taken out of its DataShape
\* when it is alone in it
ElemOf(ds) ==
  LET e0 == subshape0(ds)
  IN IF e0.tag = "ds" /\ Len(e0.params) = 1 THEN e0.params[1] ELSE e0

\* the scalar lookup falling back to a string column instead of raising
lookup_default(ds) == IF ds \in DOMAIN types THEN types[ds] ELSE StringType

\* the scalar lookup that ends ds_to_sparksql
lookup(ds) == IF ds \in DOMAIN types THEN types[ds]
              ELSE Raise("NotImplementedError")

RECURSIVE ds_to_sparksql(_)
ds_to_sparksql(ds) ==
  IF ds.tag = "str" THEN ds_to_sparksql(dshape(ds))
  ELSE IF ds.tag = "record" THEN
    LET dts == [i \in DOMAIN ds.fields |->
                  ds_to_sparksql(deoption(ds.fields[i].type))]
    IN IF FirstRaise(dts) # None THEN FirstRaise(dts)
       ELSE StructType([i \in DOMAIN ds.fields |->
                          StructField(ds.fields[i].name, dts[i],
                                      fieldNullable(ds.fields[i].type))])
  ELSE IF ds.tag = "ds" THEN
    IF isdimension(ds.params[1]) THEN
      LET elem == ElemOf(ds)
          et == ds_to_sparksql(deoption(elem))
      IN IF IsRaise(et) THEN et
         ELSE ArrayType(et, elemNullable(elem))
    ELSE ds_to_sparksql(ds.params[1])
  ELSE lookup(ds)

(***************************************************************************)
(* sparksql_to_ds                                                          *)
(***************************************************************************)
\* the array shape built without looking at containsNull
liftArray_nonull(elem, containsNull) == Mul(var, elem)

\* the array shape losing its dimension when the elements are not null
liftArray_nodim(elem, containsNull) ==
  IF containsNull THEN Mul(var, Option(elem)) ELSE elem

\* the array branch once the element type is converted
liftArray(elem, containsNull) ==
  IF containsNull THEN Mul(var, Option(elem)) ELSE Mul(var, elem)

RECURSIVE sparksql_to_ds(_)
sparksql_to_ds(ss) ==
  IF ss \in DOMAIN rev_types THEN rev_types[ss]
  ELSE IF ss.tag = "array" THEN
    LET elem == sparksql_to_ds(ss.elementType)
    IN IF IsRaise(elem) THEN elem
       ELSE liftArray(elem, ss.containsNull)
  ELSE IF ss.tag = "struct" THEN
    LET fts == [i \in DOMAIN ss.sfields |->
                  sparksql_to_ds(ss.sfields[i].dataType)]
    IN IF FirstRaise(fts) # None THEN FirstRaise(fts)
       ELSE Record([i \in DOMAIN ss.sfields |->
                      <<PyStr(ss.sfields[i].name),
                        IF ss.sfields[i].nullable THEN Option(fts[i])
                        ELSE fts[i]>>])
  ELSE Raise("NotImplementedError")

(***************************************************************************)
(* into(sqlContext, rdd, schema=None, columns=None): a is the record of    *)
(* the call's inputs; discovered is the value of discover(rdd).            *)
(***************************************************************************)
\* range counting from one
range_from1(n) == PyList([i \in 1..n |-> PyInt(i)])

range(n) == PyList([i \in 1..n |-> PyInt(i - 1)])

\* list(zip(a, b)) for a list a and a tuple b: as long as the shorter one
zip(a, b) ==
  LET n == IF Len(a.items) <= Len(b) THEN Len(a.items) ELSE Len(b)
  IN [i \in 1..n |-> <<a.items[i], b[i]>>]

\* x or y, for x None or a list: None and the empty list are false
or(x, y) == IF x.tag = "None" THEN y
            ELSE IF x.tag = "list" /\ x.items = <<>> THEN y
            ELSE x

into(a) ==
  LET schema0 == or(a.schema, subshape0(a.discovered))
      schema == IF schema0.params[1].tag = "tuple"
                  THEN LET columns == or(a.columns,
                                         range(Len(schema0.params[1].dshapes)))
                           tps == schema0.params[1].dshapes
                       IN dshape(Record(zip(columns, tps)))
                  ELSE schema0
      sql_schema == ds_to_sparksql(schema)
  IN IF IsRaise(sql_schema) THEN sql_schema
     ELSE [tag |-> "SchemaRDD", schema |-> sql_schema]

(***************************************************************************)
(* discover(srdd)                                                          *)
(***************************************************************************)
\* discover returning the converted schema as it is
discover_bare(srdd) == sparksql_to_ds(srdd.schema)

discover(srdd) ==
  LET t == sparksql_to_ds(srdd.schema)
  IN IF IsRaise(t) THEN t ELSE Mul(var, t)

(***************************************************************************)
(* The inputs of the calls.                                                *)
(***************************************************************************)
FieldNames == {"name", "amount", "id"}

\* the sequences of n distinct field names
NameSeqs(n) == {ns \in [1..n -> FieldNames] :
                  \A i, j \in 1..n : ns[i] = ns[j] => i = j}

\* one sequence of n distinct field names
NameSeq(n) == [i \in 1..n |-> IF i = 1 THEN "name"
                              ELSE IF i = 2 THEN "amount"
                              ELSE "f" \o ToString(i)]

Dims == {var} \cup {Fixed(n) : n \in 0..MaxLen}

\* a type as it may stand in a field or element slot: bare, optional,
\* doubly optional, or inside an outer single-element descriptor
Wrap(x) == {x, Option(x), Option(Option(x))} \cup
           (IF x.tag = "ds" THEN {}
            ELSE {DataShape(<<x>>), DataShape(<<Option(x)>>)})

\* the element types of a dimension: bare, optional, doubly optional
Elems(x) == {x, Option(x), Option(Option(x))}

WrapAll(S) == UNION {Wrap(x) : x \in S}
ElemsAll(S) == UNION {Elems(x) : x \in S}

\* the records of 1..MaxFields fields, of every order of the names, with
\* field types in T
RecordsOver(T) ==
  UNION {{Record([i \in 1..n |-> <<PyStr(ns[i]), ts[i]>>]) :
            ns \in NameSeqs(n), ts \in [1..n -> T]} : n \in 1..MaxFields}

\* the same with one order of the names
FewRecordsOver(T) ==
  UNION {{Record([i \in 1..n |-> <<PyStr(NameSeq(n)[i]), ts[i]>>]) :
            ts \in [1..n -> T]} : n \in 1..MaxFields}

\* the records of 1..MaxFields fields with one field type in T and the
\* others s
RecordsWith(T, s) ==
  UNION {{Record([i \in 1..n |-> <<PyStr(NameSeq(n)[i]),
                                   IF i = p THEN t ELSE s>>]) :
            t \in T, p \in 1..n} : n \in 1..MaxFields}

ArraysOver(M) == {Mul(d, m) : d \in Dims, m \in M}

Scalars == DOMAIN types \cup {int128}
Leaves == {int32, int128}
FewLeaves == {int32, Option(date_), int128}

Shapes1 == RecordsOver(WrapAll(Leaves) \cup {Option(date_)})
             \cup ArraysOver(ElemsAll(Leaves) \cup {Option(date_)})
FewShapes1 == FewRecordsOver(FewLeaves) \cup ArraysOver(FewLeaves)
Shapes2 == RecordsWith(WrapAll(FewShapes1), int32)
             \cup ArraysOver(ElemsAll(FewShapes1))
FewShapes2 == {Record(<< <<PyStr("name"), t>> >>) :
                 t \in UNION {{r, Option(r)} :
                                r \in FewRecordsOver(FewLeaves)}}
Shapes3 == ArraysOver(ElemsAll(FewShapes2))
             \cup {Record(<< <<PyStr("id"), t>> >>) :
                     t \in WrapAll(FewShapes2)}

Tuples(T) == UNION {{Tuple(ts) : ts \in [1..n -> T]} : n \in 0..MaxArity}

Strings == {PyStr("int32"), PyStr("?int32"), PyStr("5 * int32"),
            PyStr("5 * ?int32"), PyStr("{name: string, amount: int32}"),
            PyStr("10 * {name: string, amount: ?int32}")}

LowerInputs == Scalars \cup WrapAll(Scalars) \cup Shapes1 \cup Shapes2
                 \cup Shapes3 \cup Strings \cup Tuples({int32})
                 \cup {DataShape(<<t>>) : t \in FewRecordsOver(FewLeaves)}

DeoptionInputs == WrapAll(Scalars) \cup WrapAll(FewShapes1) \cup Strings

\* engine schemas
Prims == DOMAIN rev_types \cup {ByteType}
FewPrims == {IntegerType, TimestampType, ByteType}

StructsOver(T) ==
  UNION {{StructType([i \in 1..n |->
                        StructField(ns[i], ts[i], nl[i])]) :
            ns \in NameSeqs(n), ts \in [1..n -> T],
            nl \in [1..n -> BOOLEAN]} : n \in 1..MaxFields}

FewStructsOver(T) ==
  UNION {{StructType([i \in 1..n |->
                        StructField(NameSeq(n)[i], ts[i], nl[i])]) :
            ts \in [1..n -> T], nl \in [1..n -> BOOLEAN]} :
         n \in 1..MaxFields}

StructsWith(T, s) ==
  UNION {{StructType([i \in 1..n |->
                        StructField(NameSeq(n)[i],
                                    IF i = p THEN t ELSE s, nl[i])]) :
            t \in T, p \in 1..n, nl \in [1..n -> BOOLEAN]} :
         n \in 1..MaxFields}

SqlArraysOver(T) == {ArrayType(e, c) : e \in T, c \in BOOLEAN}

Schemas1 == StructsOver(FewPrims) \cup SqlArraysOver(Prims)
FewSchemas1 == FewStructsOver({IntegerType, TimestampType})
                 \cup SqlArraysOver(FewPrims)
FewSchemas2 == StructsWith(FewSchemas1, IntegerType)
                 \cup SqlArraysOver(FewSchemas1)
Schemas2 == FewSchemas2 \cup SqlArraysOver(Schemas1)
Schemas3 == SqlArraysOver(FewSchemas2)

LiftInputs == Prims \cup Schemas1 \cup Schemas2 \cup Schemas3

\* the inputs of into: an explicit schema or the discovered shape of the
\* rdd, and the column labels
TupleSlots == {int32, Option(int32), DataShape(<<string>>),
               DataShape(<<Option(int32)>>), int128}
ColumnLists == {None} \cup
  UNION {{PyList([i \in 1..n |-> PyStr(cs[i])]) : cs \in NameSeqs(n)} :
         n \in 0..MaxArity}
RowShapes == Tuples(TupleSlots) \cup FewRecordsOver(FewLeaves)
IntoInputs ==
  {[schema |-> DataShape(<<t>>), discovered |-> None, columns |-> c] :
     t \in RowShapes, c \in ColumnLists}
  \cup
  {[schema |-> None, discovered |-> Mul(var, t), columns |-> c] :
     t \in RowShapes, c \in ColumnLists}

DiscoverInputs == {[tag |-> "SchemaRDD", schema |-> s] :
                     s \in Prims \cup Schemas1 \cup FewSchemas2}

(***************************************************************************)
(* The calls.  A state is a call with its argument and, once the call has  *)
(* returned, its result.                                                   *)
(***************************************************************************)
Pending == [tag |-> "pending"]

Init ==
  /\ ret = Pending
  /\ stack = <<>>
  /\ \/ call = "deoption" /\ arg \in DeoptionInputs
     \/ call = "ds_to_sparksql" /\ arg \in LowerInputs
     \/ call = "sparksql_to_ds" /\ arg \in LiftInputs
     \/ call = "into" /\ arg \in IntoInputs
     \/ call = "discover" /\ arg \in DiscoverInputs

CallDeoption ==
  /\ call = "deoption" /\ ret = Pending
  /\ ret' = deoption(arg)
  /\ UNCHANGED <<call, arg, stack>>

CallDsToSparksql ==
  /\ call = "ds_to_sparksql" /\ ret = Pending
  /\ ret' = ds_to_sparksql(arg)
  /\ UNCHANGED <<call, arg, stack>>

CallSparksqlToDs ==
  /\ call = "sparksql_to_ds" /\ ret = Pending
  /\ ret' = sparksql_to_ds(arg)
  /\ UNCHANGED <<call, arg, stack>>

CallInto ==
  /\ call = "into" /\ ret = Pending
  /\ ret' = into(arg)
  /\ UNCHANGED <<call, arg, stack>>

CallDiscover ==
  /\ call = "discover" /\ ret = Pending
  /\ ret' = discover(arg)
  /\ UNCHANGED <<call, arg, stack>>

Next ==
  \/ CallDeoption
  \/ CallDsToSparksql
  \/ CallSparksqlToDs
  \/ CallInto
  \/ CallDiscover

Spec == Init /\ [][Next]_vars

Returned(f) == call = f /\ ret # Pending

(***************************************************************************)
(* The same three functions one call or return at a time.  stack is the    *)
(* Python call stack: a frame holds the function, its argument and the     *)
(* results of the calls it has made so far.                                *)
(***************************************************************************)
Frame(f, a) == [fn |-> f, arg |-> a, vals |-> <<>>]
DoCall(f, a) == [kind |-> "call", fn |-> f, arg |-> a]
DoReturn(v) == [kind |-> "return", value |-> v]

\* the argument of deoption's recursive call, were it the whole ds
deoptionCallee_same(ds) == ds

\* the argument of deoption's recursive call
deoptionCallee(ds) == ds.params[1]

deoptionNext(fr) ==
  LET ds == IF fr.arg.tag = "str" THEN dshape(fr.arg) ELSE fr.arg
  IN IF ds.tag = "ds" /\ ~isdimension(ds.params[1])
       THEN IF fr.vals = <<>> THEN DoCall("deoption", deoptionCallee(ds))
            ELSE DoReturn(fr.vals[1])
     ELSE IF ds.tag = "option" THEN DoReturn(ds.ty)
     ELSE DoReturn(ds)

ds_to_sparksqlNext(fr) ==
  LET ds == fr.arg
      n == Len(fr.vals)
  IN IF n > 0 /\ IsRaise(fr.vals[n]) THEN DoReturn(fr.vals[n])
     ELSE IF ds.tag = "str" THEN
       IF n = 0 THEN DoCall("ds_to_sparksql", dshape(ds))
       ELSE DoReturn(fr.vals[1])
     ELSE IF ds.tag = "record" THEN
       IF n < 2 * Len(ds.fields) THEN
         IF n % 2 = 0
           THEN DoCall("deoption", ds.fields[(n \div 2) + 1].type)
           ELSE DoCall("ds_to_sparksql", fr.vals[n])
       ELSE DoReturn(StructType([i \in DOMAIN ds.fields |->
                       StructField(ds.fields[i].name, fr.vals[2 * i],
                                   fieldNullable(ds.fields[i].type))]))
     ELSE IF ds.tag = "ds" THEN
       IF isdimension(ds.params[1]) THEN
         IF n = 0 THEN DoCall("deoption", ElemOf(ds))
         ELSE IF n = 1 THEN DoCall("ds_to_sparksql", fr.vals[1])
         ELSE DoReturn(ArrayType(fr.vals[2], elemNullable(ElemOf(ds))))
       ELSE IF n = 0 THEN DoCall("ds_to_sparksql", ds.params[1])
       ELSE DoReturn(fr.vals[1])
     ELSE DoReturn(lookup(ds))

sparksql_to_dsNext(fr) ==
  LET ss == fr.arg
      n == Len(fr.vals)
  IN IF n > 0 /\ IsRaise(fr.vals[n]) THEN DoReturn(fr.vals[n])
     ELSE IF ss \in DOMAIN rev_types THEN DoReturn(rev_types[ss])
     ELSE IF ss.tag = "array" THEN
       IF n = 0 THEN DoCall("sparksql_to_ds", ss.elementType)
       ELSE DoReturn(liftArray(fr.vals[1], ss.containsNull))
     ELSE IF ss.tag = "struct" THEN
       IF n < Len(ss.sfields)
         THEN DoCall("sparksql_to_ds", ss.sfields[n + 1].dataType)
       ELSE DoReturn(Record([i \in DOMAIN ss.sfields |->
                       <<PyStr(ss.sfields[i].name),
                         IF ss.sfields[i].nullable THEN Option(fr.vals[i])
                         ELSE fr.vals[i]>>]))
     ELSE DoReturn(Raise("NotImplementedError"))

Top == stack[Len(stack)]

\* a call pushes a frame; a return pops one and hands its value to the
\* caller, or to ret when the frame is the first
Do(op) ==
  IF op.kind = "call" THEN
    /\ stack' = Append(stack, Frame(op.fn, op.arg))
    /\ ret' = ret
  ELSE IF Len(stack) = 1 THEN
    /\ stack' = <<>>
    /\ ret' = op.value
  ELSE
    /\ stack' = [i \in 1..(Len(stack) - 1) |->
                   IF i = Len(stack) - 1
                     THEN [stack[i] EXCEPT !.vals = Append(@, op.value)]
                     ELSE stack[i]]
    /\ ret' = ret

StepDeoption ==
  /\ stack # <<>> /\ Top.fn = "deoption"
  /\ Do(deoptionNext(Top))
  /\ UNCHANGED <<call, arg>>

StepDsToSparksql ==
  /\ stack # <<>> /\ Top.fn = "ds_to_sparksql"
  /\ Do(ds_to_sparksqlNext(Top))
  /\ UNCHANGED <<call, arg>>

StepSparksqlToDs ==
  /\ stack # <<>> /\ Top.fn = "sparksql_to_ds"
  /\ Do(sparksql_to_dsNext(Top))
  /\ UNCHANGED <<call, arg>>

StepLowerInputs == WrapAll(Scalars) \cup FewShapes1 \cup Shapes2
                     \cup Shapes3 \cup Strings \cup Tuples({int32})
StepLiftInputs == Prims \cup FewSchemas1 \cup Schemas3

InitStep ==
  /\ ret = Pending
  /\ \/ call = "deoption" /\ arg \in DeoptionInputs
     \/ call = "ds_to_sparksql" /\ arg \in StepLowerInputs
     \/ call = "sparksql_to_ds" /\ arg \in StepLiftInputs
  /\ stack = <<Frame(call, arg)>>

NextStep ==
  \/ StepDeoption
  \/ StepDsToSparksql
  \/ StepSparksqlToDs

\* a call that has started goes on: the interpreter does not stop by itself
SpecStep == InitStep /\ [][NextStep]_vars /\ WF_vars(NextStep)

(***************************************************************************)
(* Properties.                                                             *)
(***************************************************************************)
Unopt(t) == IF t.tag = "option" THEN t.ty ELSE t

UniqueNames(r) ==
  \A i, j \in DOMAIN r.fields : r.fields[i].name = r.fields[j].name => i = j

\* a record whose field types are supported scalars or such records, each
\* possibly inside one Option
RECURSIVE PlainRecord(_)
PlainRecord(r) ==
  /\ r.tag = "record"
  /\ UniqueNames(r)
  /\ \A i \in DOMAIN r.fields :
       LET u == Unopt(r.fields[i].type)
       IN \/ u \in DOMAIN types
          \/ u.tag = "record" /\ PlainRecord(u)

\* q is a record with the names, the order and the Options of r, at every
\* level
RECURSIVE SameLayout(_, _)
SameLayout(r, q) ==
  /\ q.tag = "record"
  /\ Len(q.fields) = Len(r.fields)
  /\ \A i \in DOMAIN r.fields :
       /\ q.fields[i].name = r.fields[i].name
       /\ (q.fields[i].type.tag = "option") = (r.fields[i].type.tag = "option")
       /\ LET u == Unopt(r.fields[i].type)
              v == Unopt(q.fields[i].type)
          IN IF u.tag = "record" THEN SameLayout(u, v) ELSE v.tag = "ctype"

\* C1: for every record with unique field names whose field types are
\* supported scalars or nested such records, each possibly inside one Option,
\* converting to SparkSQL and back gives a record with the same field names
\* in the same order, each field optional exactly when it was, at every level.
C1_RecordRoundTrip ==
  (Returned("ds_to_sparksql") /\ PlainRecord(arg)) =>
     /\ ~IsRaise(ret)
     /\ SameLayout(arg, sparksql_to_ds(ret))

C1_Witness ==
  /\ Returned("ds_to_sparksql")
  /\ PlainRecord(arg)
  /\ Len(arg.fields) = 2
  /\ arg.fields[1].name = "id"
  /\ arg.fields[1].type = Option(int32)
  /\ arg.fields[2].type = int32
  /\ sparksql_to_ds(ret) = arg

\* a nested record with an optional record field comes back unchanged
C1_WitnessNested ==
  /\ Returned("ds_to_sparksql")
  /\ PlainRecord(arg)
  /\ \E i \in DOMAIN arg.fields :
       /\ arg.fields[i].type.tag = "option"
       /\ arg.fields[i].type.ty.tag = "record"
  /\ SameLayout(arg, sparksql_to_ds(ret))

\* C2: for every scalar k of the forward table, converting k to SparkSQL and
\* back gives rev_types[types[k]], and that is k itself for every k except
\* time and date, which both come back as datetime.
C2_ScalarRoundTrip ==
  (Returned("ds_to_sparksql") /\ arg \in DOMAIN types) =>
     /\ ~IsRaise(ret)
     /\ sparksql_to_ds(ret) = rev_types[types[arg]]
     /\ (sparksql_to_ds(ret) = arg) <=> (arg \notin {time_, date_})
     /\ arg \in {time_, date_} => sparksql_to_ds(ret) = datetime_

C2_Witness ==
  /\ Returned("ds_to_sparksql")
  /\ arg = date_
  /\ ret = TimestampType
  /\ sparksql_to_ds(ret) = datetime_

\* C3: every SparkSQL schema that sparksql_to_ds converts is given back
\* unchanged by ds_to_sparksql (flags, names and order included), and the
\* forward table inverts the reverse table on every key of the reverse table.
C3_SchemaRoundTrip ==
  Returned("sparksql_to_ds") =>
     /\ ~IsRaise(ret) => ds_to_sparksql(ret) = arg
     /\ arg \in DOMAIN rev_types =>
          /\ ret \in DOMAIN types
          /\ types[ret] = arg

C3_Witness ==
  /\ Returned("sparksql_to_ds")
  /\ arg.tag = "array"
  /\ arg.containsNull
  /\ arg.elementType.tag = "struct"
  /\ \E i \in DOMAIN arg.elementType.sfields :
       /\ arg.elementType.sfields[i].nullable
       /\ arg.elementType.sfields[i].dataType.tag = "array"
  /\ ~IsRaise(ret)
  /\ ds_to_sparksql(ret) = arg

RECURSIVE NoFixed(_)
NoFixed(t) ==
  CASE t.tag = "fixed" -> FALSE
    [] t.tag = "option" -> NoFixed(t.ty)
    [] t.tag = "ds" -> \A i \in DOMAIN t.params : NoFixed(t.params[i])
    [] t.tag = "record" ->
         \A i \in DOMAIN t.fields : NoFixed(t.fields[i].type)
    [] OTHER -> TRUE

\* C4: converting a fixed-size dimension to SparkSQL and back gives what the
\* variable-size dimension over the same element gives, with the variable
\* marker outermost; and sparksql_to_ds never yields a fixed dimension.
C4_LengthDiscarded ==
  /\ (/\ Returned("ds_to_sparksql")
      /\ arg.tag = "ds"
      /\ arg.params[1].tag = "fixed"
      /\ ~IsRaise(ret)) =>
        LET back == sparksql_to_ds(ret)
            viaVar == sparksql_to_ds(
                        ds_to_sparksql(DataShape(<<var>> \o Tail(arg.params))))
        IN /\ back = viaVar
           /\ back.tag = "ds"
           /\ back.params[1] = var
           /\ NoFixed(back)
  /\ (Returned("ds_to_sparksql") /\ arg = PyStr("5 * int32")) =>
        sparksql_to_ds(ret) = DataShape(<<var, int32>>)
  /\ (Returned("sparksql_to_ds") /\ ~IsRaise(ret)) => NoFixed(ret)

C4_Witness ==
  /\ Returned("ds_to_sparksql")
  /\ arg = DataShape(<<Fixed(1), int32>>)
  /\ ret = ArrayType(IntegerType, FALSE)
  /\ sparksql_to_ds(ret) = DataShape(<<var, int32>>)

\* C5: in ds_to_sparksql the nullable flag of every struct field, and the
\* containsNull flag of every array, is true exactly when deoption removed
\* an Option from the type converted into that slot, also when the Option
\* sits inside an outer single-element descriptor.
C5_FlagIsWasOptional ==
  (Returned("ds_to_sparksql") /\ ~IsRaise(ret)) =>
     /\ arg.tag = "record" =>
          \A i \in DOMAIN arg.fields :
            ret.sfields[i].nullable
              = deoptionTrace(arg.fields[i].type).stripped
     /\ (arg.tag = "ds" /\ isdimension(arg.params[1])) =>
          ret.containsNull = deoptionTrace(ElemOf(arg)).stripped

\* an unsupported scalar somewhere in a shape
RECURSIVE HasUnsupported(_)
HasUnsupported(t) ==
  CASE t.tag = "ctype" -> t \notin DOMAIN types
    [] t.tag = "option" -> HasUnsupported(t.ty)
    [] t.tag = "ds" -> \E i \in DOMAIN t.params : HasUnsupported(t.params[i])
    [] t.tag = "record" ->
         \E i \in DOMAIN t.fields : HasUnsupported(t.fields[i].type)
    [] t.tag = "tuple" ->
         \E i \in DOMAIN t.dshapes : HasUnsupported(t.dshapes[i])
    [] OTHER -> FALSE

\* what ds_to_sparksql gives for a construct it cannot convert
UnsupportedConstructOutcome == ds_to_sparksql(Tuple(<<int32>>))

RowOf(a) == IF a.schema # None THEN a.schema.params[1]
            ELSE a.discovered.params[2]

NoColumns(a) == a.columns = None \/ a.columns = PyList(<<>>)

\* C7: for a row shape that is an anonymous tuple of n components, into
\* without column names gives a struct of n fields named "0" .. "n-1" in
\* order, field i holding the conversion of component i; with column names
\* the names are the given ones, in order.
C7_TupleNaming ==
  (Returned("into") /\ RowOf(arg).tag = "tuple" /\ ~IsRaise(ret)) =>
     LET tps == RowOf(arg).dshapes
         fs == ret.schema.sfields
     IN /\ ret.schema.tag = "struct"
        /\ \A i \in DOMAIN fs :
             /\ i <= Len(tps)
             /\ fs[i].dataType = ds_to_sparksql(deoption(tps[i]))
        /\ NoColumns(arg) =>
             /\ Len(fs) = Len(tps)
             /\ \A i \in DOMAIN fs : fs[i].name = ToString(i - 1)
        /\ ~NoColumns(arg) =>
             /\ \A i \in DOMAIN fs : fs[i].name = arg.columns.items[i].s
             /\ Len(arg.columns.items) = Len(tps) => Len(fs) = Len(tps)

C7_Witness ==
  /\ Returned("into")
  /\ RowOf(arg) = Tuple(<<int32, DataShape(<<string>>)>>)
  /\ arg.columns = None
  /\ ret.schema = StructType(<<StructField("0", IntegerType, FALSE),
                               StructField("1", StringType, FALSE)>>)

C7_WitnessNamed ==
  /\ Returned("into")
  /\ RowOf(arg) = Tuple(<<int32, Option(int32)>>)
  /\ arg.columns = PyList(<<PyStr("id"), PyStr("name")>>)
  /\ ret.schema = StructType(<<StructField("id", IntegerType, FALSE),
                               StructField("name", IntegerType, TRUE)>>)

\* the shape under the outermost dimension of a DataShape
Under(ds) == IF Len(ds.params) = 2 /\ ~isdimension(ds.params[2])
             THEN ds.params[2] ELSE DataShape(Tail(ds.params))

\* C8: discover gives one variable-length dimension around the converted
\* schema, never the converted schema itself, and fails when the conversion
\* fails.
C8_DiscoverWraps ==
  Returned("discover") =>
     LET l == sparksql_to_ds(arg.schema)
     IN IF IsRaise(l) THEN ret = l
        ELSE /\ ret.tag = "ds"
             /\ Head(ret.params) = var
             /\ Under(ret) = l
             /\ ret # l

C8_Witness ==
  /\ Returned("discover")
  /\ arg.schema.tag = "struct"
  /\ Len(arg.schema.sfields) = 2
  /\ ret.tag = "ds"
  /\ ret.params = <<var, sparksql_to_ds(arg.schema)>>

C8_WitnessArray ==
  /\ Returned("discover")
  /\ arg.schema = ArrayType(IntegerType, TRUE)
  /\ ret = DataShape(<<var, var, Option(int32)>>)

IsOption(t) == t.tag = "option"

\* an Option met where ds_to_sparksql converts without stripping: at the
\* top, inside the outer descriptor, or doubled in a field or element slot
MisplacedOption(t) ==
  \/ IsOption(t)
  \/ t.tag = "str" /\ IsOption(dshape(t).params[1])
  \/ t.tag = "ds" /\ IsOption(t.params[1])
  \/ /\ t.tag = "record"
     /\ \E i \in DOMAIN t.fields :
          IsOption(t.fields[i].type) /\ IsOption(t.fields[i].type.ty)
  \/ /\ t.tag = "ds"
     /\ isdimension(t.params[1])
     /\ IsOption(ElemOf(t)) /\ IsOption(ElemOf(t).ty)

\* C9: ds_to_sparksql raises, and returns no schema, when given an Option
\* directly (also inside the outer descriptor, as the parsed '?int32'), or
\* a record field or array element that is an Option of an Option.
C9_OptionOnlyInSlot ==
  (Returned("ds_to_sparksql") /\ MisplacedOption(arg)) => IsRaise(ret)

C9_Witness ==
  /\ Returned("ds_to_sparksql")
  /\ arg.tag = "record"
  /\ arg.fields[1].type = Option(Option(int32))
  /\ ret = Raise("NotImplementedError")

C9_WitnessTop ==
  /\ Returned("ds_to_sparksql")
  /\ arg = PyStr("?int32")
  /\ ret = Raise("NotImplementedError")

\* the direct parts of a value: the inner type of an Option, the field types
\* of a record, the first parameter of a DataShape and the DataShape of the
\* others (its subshape)
Parts(t) ==
  CASE t.tag = "option" -> {t.ty}
    [] t.tag = "record" -> {t.fields[i].type : i \in DOMAIN t.fields}
    [] t.tag = "ds" -> {t.params[1]} \cup
                       (IF Len(t.params) > 1 THEN {subshape0(t)} ELSE {})
    [] t.tag = "array" -> {t.elementType}
    [] t.tag = "struct" -> {t.sfields[i].dataType : i \in DOMAIN t.sfields}
    [] OTHER -> {}

RECURSIVE SubTerms(_)
SubTerms(t) == {t} \cup UNION {SubTerms(p) : p \in Parts(t)}

StrictSubTerm(s, t) == \E p \in Parts(t) : s \in SubTerms(p)

Max(S) == CHOOSE m \in S : \A x \in S : x <= m

\* the depth of a value; a string is one deeper than the shape it parses to
RECURSIVE Depth(_)
Depth(t) ==
  IF t.tag = "str" THEN 1 + Depth(dshape(t))
  ELSE IF Parts(t) = {} THEN 1
  ELSE 1 + Max({Depth(p) : p \in Parts(t)})

\* every call on the stack but the first is made on a strict sub-term of its
\* caller's argument (on the parsed shape, for a caller given a string), and
\* the stack is no deeper than the input
StackDescends ==
  /\ \A k \in 2..Len(stack) :
       /\ Depth(stack[k].arg) < Depth(stack[k - 1].arg)
       /\ stack[k - 1].arg.tag # "str" =>
            StrictSubTerm(stack[k].arg, stack[k - 1].arg)
  /\ Len(stack) <= Depth(arg)

\* the call run step by step returns what the function returns
StepAgrees ==
  ret # Pending =>
    ret = CASE call = "deoption" -> deoption(arg)
            [] call = "ds_to_sparksql" -> ds_to_sparksql(arg)
            [] call = "sparksql_to_ds" -> sparksql_to_ds(arg)

\* C10: deoption, ds_to_sparksql and sparksql_to_ds end on every input, with
\* a result or an error: every recursive call is on a strict sub-term of the
\* caller's argument, so the stack is never deeper than the input.
C10_Terminates == []StackDescends /\ <>(ret # Pending /\ stack = <<>>)

C10_Witness ==
  /\ call = "ds_to_sparksql"
  /\ arg.tag = "ds"
  /\ Depth(arg) >= 5
  /\ Len(stack) = 4
  /\ stack[4].fn = "deoption"

C10_WitnessDone ==
  /\ call = "ds_to_sparksql"
  /\ Depth(arg) >= 5
  /\ stack = <<>>
  /\ ret.tag = "array"

====
